---- MODULE Spec2Model ----
(***************************************************************************)
(* Model of the species catalogue client: the species zod schema, the      *)
(* species details dialog (edit / cancel / commit / delete / author-info   *)
(* fetch) and the two variants of the species list's sort toggle.          *)
(*                                                                         *)
(* Strings are sequences of one-character strings.  A nullable value is    *)
(* either Null (the empty tuple) or Some(x) (the one-element tuple <<x>>), *)
(* so that null and the empty string <<>> wrapped as Some(<<>>) differ.    *)
(***************************************************************************)
EXTENDS Integers, Sequences, FiniteSets, TLC

\* ------------------------------------------------------------------ bounds
MaxStrLen == 3
MaxEdits == 1
MaxSubmits == 2
MaxDeletes == 1
MaxExternal == 1
MaxToggles == 3
MaxListLen == 3
MaxNameLen == 1

\* ----------------------------------------------------------- value helpers
Null == <<>>
Some(x) == <<x>>

Chars == {" ", "a", ":"}
Strings == UNION {[1..k -> Chars] : k \in 0..MaxStrLen}

RECURSIVE TrimStart(_)
TrimStart(s) == IF s # <<>> /\ Head(s) = " " THEN TrimStart(Tail(s)) ELSE s

RECURSIVE TrimEnd(_)
TrimEnd(s) ==
  IF s # <<>> /\ s[Len(s)] = " " THEN TrimEnd(SubSeq(s, 1, Len(s) - 1)) ELSE s

\* String.prototype.trim
Trim(s) == TrimEnd(TrimStart(s))

\* z.string().url(): the string parses with the URL constructor, which strips
\* surrounding spaces and then needs a scheme (a letter, then letters) and ":".
IsUrl(s) ==
  LET t == Trim(s)
  IN \E i \in 2..Len(t) : t[i] = ":" /\ \A j \in 1..(i - 1) : t[j] = "a"

\* ------------------------------------------------------------------ schema
\* A parse result: ok with the output value, or not ok (a field violation).
Ok(v) == [ok |-> TRUE, value |-> v]
Invalid == [ok |-> FALSE, value |-> Null]

kingdoms == {"Animalia", "Plantae", "Fungi", "Protista", "Archaea", "Bacteria"}

\* (val) => (!val || val.trim() === "" ? null : val.trim())
EmptyToNull(val) ==
  IF val = Null \/ val[1] = <<>> \/ Trim(val[1]) = <<>>
  THEN Null
  ELSE Some(Trim(val[1]))

\* scientific_name: z.string().trim().min(1).transform(trim)
ParseScientificName(val) ==
  IF Len(Trim(val)) >= 1 THEN Ok(Trim(Trim(val))) ELSE Invalid

\* common_name, description: z.string().nullable().transform(...)
ParseOptionalText(val) == Ok(EmptyToNull(val))

\* image: z.string().url().nullable().transform(...): the url check runs on
\* every non-null string before the transform.
ParseImage(val) ==
  IF val = Null THEN Ok(EmptyToNull(val))
  ELSE IF IsUrl(val[1]) THEN Ok(EmptyToNull(val))
  ELSE Invalid

\* kingdom: the closed enum
ParseKingdom(val) == IF val \in kingdoms THEN Ok(val) ELSE Invalid

\* total_population: z.number().int().positive().min(1).nullable()
ParsePopulation(val) ==
  IF val = Null THEN Ok(Null)
  ELSE IF val[1] > 0 /\ val[1] >= 1 THEN Ok(val)
  ELSE Invalid

\* endangered: z.boolean()
ParseEndangered(val) == IF val \in BOOLEAN THEN Ok(val) ELSE Invalid

OptionalFields == {"common_name", "image", "description"}

ParseField(f, val) ==
  CASE f = "scientific_name" -> ParseScientificName(val)
    [] f = "common_name" -> ParseOptionalText(val)
    [] f = "kingdom" -> ParseKingdom(val)
    [] f = "total_population" -> ParsePopulation(val)
    [] f = "image" -> ParseImage(val)
    [] f = "description" -> ParseOptionalText(val)
    [] f = "endangered" -> ParseEndangered(val)

Fields ==
  {"scientific_name", "common_name", "kingdom", "total_population", "image",
   "description", "endangered"}

\* speciesSchema.safeParse over a whole draft
SchemaValid(draft) == \A f \in Fields : ParseField(f, draft[f]).ok
SchemaOutput(draft) == [f \in Fields |-> ParseField(f, draft[f]).value]

\* -------------------------------------------------------------- list view
\* The two variants of SpeciesListClient: "local" keeps the sort order in
\* component state and sorts a copy of the input; "url" pushes the sort order
\* to the router and sorts the input array in place.
NameChars == {"a", "A", "b"}
Names == UNION {[1..k -> NameChars] : k \in 1..MaxNameLen}

\* String.prototype.toLowerCase
toLowerCase(s) == [i \in 1..Len(s) |-> IF s[i] = "A" THEN "a" ELSE s[i]]

CharRank(c) == CASE c = "a" -> 1 [] c = "A" -> 2 [] c = "b" -> 3

\* String.prototype.localeCompare: negative, zero or positive
RECURSIVE localeCompare(_, _)
localeCompare(x, y) ==
  IF x = <<>> /\ y = <<>> THEN 0
  ELSE IF x = <<>> THEN -1
  ELSE IF y = <<>> THEN 1
  ELSE IF CharRank(Head(x)) < CharRank(Head(y)) THEN -1
  ELSE IF CharRank(Head(x)) > CharRank(Head(y)) THEN 1
  ELSE localeCompare(Tail(x), Tail(y))

\* The comparator both variants pass to sort
compareSpecies(speciesA, speciesB, order) ==
  LET scientificNameA == toLowerCase(speciesA.scientific_name)
      scientificNameB == toLowerCase(speciesB.scientific_name)
      comparisonResult == localeCompare(scientificNameA, scientificNameB)
  IN IF order = "asc" THEN comparisonResult ELSE -comparisonResult

\* x put into an ordered sequence after every element that is not above it
RECURSIVE InsertOrdered(_, _, _)
InsertOrdered(x, sorted, order) ==
  IF sorted = <<>> THEN <<x>>
  ELSE IF compareSpecies(Head(sorted), x, order) <= 0
       THEN <<Head(sorted)>> \o InsertOrdered(x, Tail(sorted), order)
       ELSE <<x>> \o sorted

\* Array.prototype.sort with the comparator (a stable sort)
RECURSIVE sortSpecies(_, _)
sortSpecies(list, order) ==
  IF list = <<>> THEN <<>>
  ELSE InsertOrdered(list[Len(list)],
                     sortSpecies(SubSeq(list, 1, Len(list) - 1), order), order)

\* A faulty newSortOrder: both branches give "desc".
newSortOrderAlwaysDesc(order) == "desc"

\* const newSortOrder = sortOrder === "asc" ? "desc" : "asc"
newSortOrder(order) == IF order = "asc" THEN "desc" ELSE "asc"

\* ------------------------------------------------------------------ dialog
Users == {"u1", "u2"}

\* The profiles table: one row per user.
Profile(u) == [email |-> u, display_name |-> u, biography |-> Null]

\* The error.message values a failing backend call reports
ErrorMessages == {"permission denied"}

\* ------------------------------------------------------------------- state
\* Schema state: one field's raw input, and the result once the resolver ran.
VARIABLES schemaField, schemaIn, schemaDone, schemaOut

schemaVars == <<schemaField, schemaIn, schemaDone, schemaOut>>

VARIABLES
  currentUser,    \* prop: the session's user id
  species,        \* prop: the species row as last passed by the parent
  row,            \* the species row in the database
  rowDeleted,     \* the row was deleted from the database
  mounted,        \* the dialog's card is still rendered by the parent
  isEditing,      \* useState(false)
  authorInfo,     \* useState(null)
  form,           \* react-hook-form's field values (the draft)
  updReq,         \* update requests sent, not yet executed by the backend
  updResp,        \* update responses not yet received by onSubmit
  delReq,         \* delete requests sent, not yet executed by the backend
  delResp,        \* delete responses not yet received by onDelete
  fetchReq,       \* author-info selects in flight (the author id of each)
  toasts,         \* output: the toast() calls of the latest step
  logged,         \* output: the console.error calls of the latest step
  refreshCalls,   \* output: the router.refresh() calls of the latest step
  committed,      \* history: the values at open or of the last successful commit
  nEdits, nSubmits, nDeletes, nExternal  \* counters that bound the run

props == <<currentUser, species>>
db == <<row, rowDeleted>>
editState == <<isEditing, form>>
updNet == <<updReq, updResp>>
delNet == <<delReq, delResp>>
outputs == <<toasts, logged, refreshCalls>>
counters == <<nEdits, nSubmits, nDeletes, nExternal>>

dialogVars ==
  <<props, db, mounted, editState, authorInfo, updNet, delNet, fetchReq,
    outputs, committed, counters>>

VARIABLES
  listVariant,     \* which SpeciesListClient: "local" or "url"
  given,           \* history: the collection the parent passed at mount
  initialSpecies,  \* prop: the input array (sorted in place by "url")
  speciesList,     \* useState(initialSpecies): the collection that is rendered
  sortOrder,       \* useState("asc") / useState(router.query.sort || "asc")
  routerQuerySort, \* the sort parameter of the router's URL ("" when absent)
  shownBefore,     \* history: the rendered collection before each past toggle
  nToggles         \* counter that bounds the run

listVars ==
  <<listVariant, given, initialSpecies, speciesList, sortOrder, routerQuerySort,
    shownBefore, nToggles>>

vars == <<dialogVars, schemaVars, listVars>>

\* ---------------------------------------------------------- schema steps
SchemaIdle ==
  /\ schemaField = "scientific_name"
  /\ schemaIn = <<>>
  /\ schemaDone = FALSE
  /\ schemaOut = Invalid

\* Raw inputs of the optional string fields: null or any bounded string.
SchemaInit ==
  /\ schemaField \in OptionalFields
  /\ schemaIn \in {Null} \cup {Some(s) : s \in Strings}
  /\ schemaDone = FALSE
  /\ schemaOut = Invalid

\* The resolver validates one optional string field of the form.
Validate ==
  /\ ~schemaDone
  /\ schemaDone' = TRUE
  /\ schemaOut' = ParseField(schemaField, schemaIn)
  /\ UNCHANGED <<schemaField, schemaIn, dialogVars, listVars>>

\* ------------------------------------------------------------ list steps
\* The collections a parent may pass: records with ids in input order
InputLists ==
  UNION {{[i \in 1..n |-> [id |-> i, scientific_name |-> names[i]]] :
            names \in [1..n -> Names]} : n \in 0..MaxListLen}

\* The list after its first render and its mount effect
ListInit ==
  /\ listVariant \in {"local", "url"}
  /\ given \in InputLists
  /\ routerQuerySort \in IF listVariant = "url" THEN {"", "asc", "desc"} ELSE {""}
  /\ sortOrder = IF listVariant = "url" /\ routerQuerySort # ""
                 THEN routerQuerySort
                 ELSE "asc"
  /\ speciesList = sortSpecies(given, sortOrder)
  /\ initialSpecies = IF listVariant = "url" THEN speciesList ELSE given
  /\ shownBefore = <<>>
  /\ nToggles = 0

ListIdle ==
  /\ listVariant = "local"
  /\ given = <<>>
  /\ initialSpecies = <<>>
  /\ speciesList = <<>>
  /\ sortOrder = "asc"
  /\ routerQuerySort = ""
  /\ shownBefore = <<>>
  /\ nToggles = 0

\* species-list-client.tsx: handleSortToggle sets the state, and the effect on
\* [initialSpecies, sortOrder] sorts a copy of the input.
handleSortToggle ==
  /\ listVariant = "local"
  /\ nToggles < MaxToggles
  /\ sortOrder' = newSortOrder(sortOrder)
  /\ speciesList' = sortSpecies(initialSpecies, sortOrder')
  /\ shownBefore' = Append(shownBefore, speciesList)
  /\ nToggles' = nToggles + 1
  /\ UNCHANGED <<listVariant, given, initialSpecies, routerQuerySort, dialogVars,
                 schemaVars>>

\* The other variant: handleSortToggle only pushes the URL; sortOrder is not
\* set, so the effect on [sortOrder] does not run again.
handleSortTogglePush ==
  /\ listVariant = "url"
  /\ nToggles < MaxToggles
  /\ routerQuerySort' = newSortOrder(sortOrder)
  /\ shownBefore' = Append(shownBefore, speciesList)
  /\ nToggles' = nToggles + 1
  /\ UNCHANGED <<listVariant, given, initialSpecies, speciesList, sortOrder,
                 dialogVars, schemaVars>>

\* ---------------------------------------------------------- dialog steps
\* A step that toasts nothing, logs nothing and asks for no refresh.
NoOutput ==
  /\ toasts' = <<>>
  /\ logged' = <<>>
  /\ refreshCalls' = 0

\* const defaultValues = { scientific_name: species.scientific_name, ... }
defaultValues(sp) == [f \in Fields |-> sp[f]]

\* A faulty button row: Delete is rendered beside Confirm and Cancel too.
ControlsDeleteInBoth(sp, user, editing) ==
  IF sp.author = user
  THEN IF editing THEN {"Confirm", "Cancel", "Delete"} ELSE {"Edit", "Delete"}
  ELSE {}

\* The button row of the dialog's form.
Controls(sp, user, editing) ==
  IF sp.author = user
  THEN IF editing THEN {"Confirm", "Cancel"} ELSE {"Edit", "Delete"}
  ELSE {}

\* A sequence without its i-th element
RemoveAt(q, i) == SubSeq(q, 1, i - 1) \o SubSeq(q, i + 1, Len(q))

FailureToast(msg) ==
  [title |-> "st went wrong",
   description |-> <<msg>>,
   variant |-> "destructive"]

SavedToast(input) ==
  [title |-> "Changes saved!",
   description |-> <<"Saved your changes to ", input.scientific_name, ".">>,
   variant |-> "default"]

DeletedToast(name) ==
  [title |-> "Deletion saved!",
   description |-> <<"Deleted ", name, " successfully.">>,
   variant |-> "default"]

\* A species row as the database may hold it when the page is rendered.
InitialRow(u) ==
  [author |-> u,
   scientific_name |-> <<"a">>,
   common_name |-> Null,
   kingdom |-> "Animalia",
   total_population |-> Null,
   image |-> Null,
   description |-> Null,
   endangered |-> FALSE]

\* What a user can put into each field of the form (the onChange values).
FieldInputs(f) ==
  CASE f = "scientific_name" -> {<<"a", "a">>, <<>>}
    [] f = "common_name" -> {<<<<"a", " ">>>>}
    [] f = "kingdom" -> {"Plantae"}
    [] f = "total_population" -> {<<0>>, <<5>>}
    [] f = "image" -> {<<<<"a", ":">>>>}
    [] f = "description" -> {<<<<>>>>}
    [] f = "endangered" -> {TRUE}

\* The dialog after its first render and its mount effect.  The session is
\* u1's (the users are interchangeable); the row is u1's or somebody else's.
DialogInit ==
  /\ currentUser = "u1"
  /\ \E u \in Users : row = InitialRow(u)
  /\ species = row
  /\ rowDeleted = FALSE
  /\ mounted = TRUE
  /\ isEditing = FALSE
  /\ authorInfo = Null
  /\ form = defaultValues(species)
  /\ updReq = <<>>
  /\ updResp = <<>>
  /\ delReq = <<>>
  /\ delResp = <<>>
  /\ fetchReq = <<species.author>>
  /\ toasts = <<>>
  /\ logged = <<>>
  /\ refreshCalls = 0
  /\ committed = defaultValues(species)
  /\ nEdits = 0
  /\ nSubmits = 0
  /\ nDeletes = 0
  /\ nExternal = 0

startEditing ==
  /\ mounted
  /\ "Edit" \in Controls(species, currentUser, isEditing)
  /\ isEditing' = TRUE
  /\ NoOutput
  /\ UNCHANGED <<props, db, mounted, form, authorInfo, updNet, delNet,
                 fetchReq, committed, counters, schemaVars, listVars>>

\* field.onChange: the inputs are read-only or disabled unless isEditing.
FieldChange(f, v) ==
  /\ mounted
  /\ isEditing
  /\ nEdits < MaxEdits
  /\ form[f] # v
  /\ form' = [form EXCEPT ![f] = v]
  /\ nEdits' = nEdits + 1
  /\ NoOutput
  /\ UNCHANGED <<props, db, mounted, isEditing, authorInfo, updNet, delNet,
                 fetchReq, committed, nSubmits, nDeletes, nExternal,
                 schemaVars, listVars>>

\* form.handleSubmit(onSubmit): the resolver runs, and onSubmit sends the
\* update only for a valid draft.
Submit ==
  /\ mounted
  /\ "Confirm" \in Controls(species, currentUser, isEditing)
  /\ nSubmits < MaxSubmits
  /\ IF SchemaValid(form)
     THEN /\ updReq' = Append(updReq, SchemaOutput(form))
          /\ nSubmits' = nSubmits + 1
     ELSE UNCHANGED <<updReq, nSubmits>>
  /\ NoOutput
  /\ UNCHANGED <<props, db, mounted, editState, authorInfo, updResp, delNet,
                 fetchReq, committed, nEdits, nDeletes, nExternal, schemaVars,
                 listVars>>

\* The backend executes update(input).eq("id", species.id).
UpdateBackend(i, err) ==
  /\ i \in 1..Len(updReq)
  /\ updReq' = RemoveAt(updReq, i)
  /\ updResp' = Append(updResp, [input |-> updReq[i], error |-> err])
  /\ row' = IF err = Null /\ ~rowDeleted
            THEN [f \in DOMAIN row |->
                    IF f \in Fields THEN updReq[i][f] ELSE row[f]]
            ELSE row
  /\ NoOutput
  /\ UNCHANGED <<props, rowDeleted, mounted, editState, authorInfo, delNet,
                 fetchReq, committed, counters, schemaVars, listVars>>

\* A faulty onSubmit: the error branch toasts but does not return (as in
\* onDelete).
onSubmitFallsThrough(i) ==
  /\ i \in 1..Len(updResp)
  /\ updResp' = RemoveAt(updResp, i)
  /\ isEditing' = FALSE
  /\ form' = updResp[i].input
  /\ refreshCalls' = 1
  /\ toasts' = IF updResp[i].error # Null
               THEN <<FailureToast(updResp[i].error[1]),
                      SavedToast(updResp[i].input)>>
               ELSE <<SavedToast(updResp[i].input)>>
  /\ committed' = updResp[i].input
  /\ logged' = <<>>
  /\ UNCHANGED <<props, db, mounted, authorInfo, updReq, delNet, fetchReq,
                 counters, schemaVars, listVars>>

\* onSubmit after its await
onSubmit(i) ==
  /\ i \in 1..Len(updResp)
  /\ updResp' = RemoveAt(updResp, i)
  /\ IF updResp[i].error # Null
     THEN /\ toasts' = <<FailureToast(updResp[i].error[1])>>
          /\ refreshCalls' = 0
          /\ UNCHANGED <<isEditing, form, committed>>
     ELSE /\ isEditing' = FALSE
          /\ form' = updResp[i].input
          /\ refreshCalls' = 1
          /\ toasts' = <<SavedToast(updResp[i].input)>>
          /\ committed' = updResp[i].input
  /\ logged' = <<>>
  /\ UNCHANGED <<props, db, mounted, authorInfo, updReq, delNet, fetchReq,
                 counters, schemaVars, listVars>>

handleCancel(confirmed) ==
  /\ mounted
  /\ "Cancel" \in Controls(species, currentUser, isEditing)
  /\ IF ~confirmed
     THEN UNCHANGED <<form, isEditing>>
     ELSE /\ form' = defaultValues(species)
          /\ isEditing' = FALSE
  /\ NoOutput
  /\ UNCHANGED <<props, db, mounted, authorInfo, updNet, delNet, fetchReq,
                 committed, counters, schemaVars, listVars>>

\* onDelete up to its await
Delete(confirmed) ==
  /\ mounted
  /\ "Delete" \in Controls(species, currentUser, isEditing)
  /\ nDeletes < MaxDeletes
  /\ IF confirmed
     THEN /\ delReq' = Append(delReq, species.scientific_name)
          /\ nDeletes' = nDeletes + 1
     ELSE UNCHANGED <<delReq, nDeletes>>
  /\ NoOutput
  /\ UNCHANGED <<props, db, mounted, editState, authorInfo, updNet, delResp,
                 fetchReq, committed, nEdits, nSubmits, nExternal, schemaVars,
                 listVars>>

\* The backend executes delete().eq("id", species.id).
DeleteBackend(i, err) ==
  /\ i \in 1..Len(delReq)
  /\ delReq' = RemoveAt(delReq, i)
  /\ delResp' = Append(delResp, [name |-> delReq[i], error |-> err])
  /\ rowDeleted' = (rowDeleted \/ err = Null)
  /\ NoOutput
  /\ UNCHANGED <<props, row, mounted, editState, authorInfo, updNet, fetchReq,
                 committed, counters, schemaVars, listVars>>

\* The toasts onDelete makes after its await.
DeleteToasts(resp) ==
  IF resp.error # Null
  THEN <<FailureToast(resp.error[1]), DeletedToast(resp.name)>>
  ELSE <<DeletedToast(resp.name)>>

\* onDelete after its await
onDelete(i) ==
  /\ i \in 1..Len(delResp)
  /\ delResp' = RemoveAt(delResp, i)
  /\ toasts' = DeleteToasts(delResp[i])
  /\ refreshCalls' = 1
  /\ logged' = <<>>
  /\ UNCHANGED <<props, db, mounted, editState, authorInfo, updNet, delReq,
                 fetchReq, committed, counters, schemaVars, listVars>>

\* The parent re-renders with the rows it re-fetched (after a router.refresh()
\* of this dialog or of any other component): the card of a deleted row is
\* dropped; otherwise the dialog gets the current row, and the effect on
\* [species.author] fetches the author info again when the author changed.
ParentRefresh ==
  /\ mounted
  /\ species # row \/ rowDeleted
  /\ IF rowDeleted
     THEN /\ mounted' = FALSE
          /\ UNCHANGED <<species, fetchReq>>
     ELSE /\ species' = row
          /\ fetchReq' = IF row.author # species.author
                         THEN Append(fetchReq, row.author)
                         ELSE fetchReq
          /\ UNCHANGED mounted
  /\ NoOutput
  /\ UNCHANGED <<currentUser, db, editState, authorInfo, updNet, delNet,
                 committed, counters, schemaVars, listVars>>

\* Another session writes the row (last write wins at the backend).
ExternalChange(newRow) ==
  /\ ~rowDeleted
  /\ nExternal < MaxExternal
  /\ newRow # row
  /\ row' = newRow
  /\ nExternal' = nExternal + 1
  /\ NoOutput
  /\ UNCHANGED <<props, rowDeleted, mounted, editState, authorInfo, updNet,
                 delNet, fetchReq, committed, nEdits, nSubmits, nDeletes,
                 schemaVars, listVars>>

\* The rows another session may write: the row handed to another author, or
\* given a description.
ExternalRows ==
  {[row EXCEPT !.author = u] : u \in Users}
    \cup {[row EXCEPT !.description = <<<<"a">>>>]}

\* fetchAuthorInfo after its await: the select for author fetchReq[i] settles.
fetchAuthorInfo(i, failed) ==
  /\ i \in 1..Len(fetchReq)
  /\ fetchReq' = RemoveAt(fetchReq, i)
  /\ IF failed
     THEN /\ logged' = <<"Error fetching author info:">>
          /\ UNCHANGED authorInfo
     ELSE /\ authorInfo' = Some(Profile(fetchReq[i]))
          /\ logged' = <<>>
  /\ toasts' = <<>>
  /\ refreshCalls' = 0
  /\ UNCHANGED <<props, db, mounted, editState, updNet, delNet, committed,
                 counters, schemaVars, listVars>>

BackendErrors == {Null} \cup {Some(m) : m \in ErrorMessages}

\* A dialog at rest, for the specifications of the other components
DialogIdle == DialogInit /\ row = InitialRow("u1")

Init == DialogInit /\ SchemaIdle /\ ListIdle

Next ==
  \/ startEditing
  \/ \E f \in Fields : \E v \in FieldInputs(f) : FieldChange(f, v)
  \/ Submit
  \/ \E i \in 1..MaxSubmits : \E err \in BackendErrors : UpdateBackend(i, err)
  \/ \E i \in 1..MaxSubmits : onSubmit(i)
  \/ \E c \in BOOLEAN : handleCancel(c)
  \/ \E c \in BOOLEAN : Delete(c)
  \/ \E i \in 1..MaxDeletes : \E err \in BackendErrors : DeleteBackend(i, err)
  \/ \E i \in 1..MaxDeletes : onDelete(i)
  \/ ParentRefresh
  \/ \E r \in ExternalRows : ExternalChange(r)
  \/ \E i \in 1..(MaxExternal + 1) : \E b \in BOOLEAN : fetchAuthorInfo(i, b)

Spec == Init /\ [][Next]_vars

\* The schema alone: any raw input of an optional string field, validated.
InitSchema == SchemaInit /\ DialogIdle /\ ListIdle
NextSchema == Validate
SpecSchema == InitSchema /\ [][NextSchema]_vars

\* The list view alone: any input collection, shown by either variant.
InitSort == ListInit /\ DialogIdle /\ SchemaIdle
NextSort == handleSortToggle \/ handleSortTogglePush
SpecSort == InitSort /\ [][NextSort]_vars

\* ------------------------------------------------------- dialog properties
\* Steps as an observer sees them.
CancelConfirmed == isEditing /\ ~isEditing' /\ UNCHANGED <<updNet, outputs>>
UpdateIssued == Len(updReq') = Len(updReq) + 1
DeleteIssued == Len(delReq') = Len(delReq) + 1
UpdateSettles(i) == i \in 1..Len(updResp) /\ updResp' = RemoveAt(updResp, i)
DeleteSettles(i) == i \in 1..Len(delResp) /\ delResp' = RemoveAt(delResp, i)
FetchSettles(i) == i \in 1..Len(fetchReq) /\ fetchReq' = RemoveAt(fetchReq, i)
InFlightUpdates == Len(updReq) + Len(updResp)

\* C1 (as claimed): a confirmed cancel resets every form field to the last
\* committed baseline (the values at open, or of the latest successful
\* commit), returns to Viewing and issues no persistence call.  The claim is
\* about runs of this dialog's own operations, so no other session has written;
\* the latest successful commit is read either way: the one onSubmit has
\* reported (committed), or the one the backend has executed (row).
C1_CancelRestoresCommitted ==
  [][(CancelConfirmed /\ nExternal = 0) =>
       /\ form' = committed \/ form' = defaultValues(row)
       /\ ~isEditing'
       /\ UNCHANGED <<updReq, delReq, fetchReq>>]_vars

\* C2 (as claimed): every commit attempt and every confirmed delete issues
\* exactly one persistence call, and its outcome makes exactly one toast: the
\* success toast if the call succeeded, the failure toast with the backend's
\* message if it failed.
C2_OneCallOneNotification ==
  [][/\ (Submit /\ SchemaValid(form)) => UpdateIssued
     /\ Delete(TRUE) => DeleteIssued
     /\ \A i \in 1..MaxSubmits :
          UpdateSettles(i) =>
            toasts' = <<IF updResp[i].error # Null
                        THEN FailureToast(updResp[i].error[1])
                        ELSE SavedToast(updResp[i].input)>>
     /\ \A i \in 1..MaxDeletes :
          DeleteSettles(i) =>
            toasts' = <<IF delResp[i].error # Null
                        THEN FailureToast(delResp[i].error[1])
                        ELSE DeletedToast(delResp[i].name)>>]_vars

\* C3: when the update of a commit fails, handling the failure leaves the edit
\* state (Editing stays Editing), the draft, the baseline and the record passed
\* to the dialog unchanged, asks for no refresh, and makes exactly the failure
\* toast that carries the backend's message.
C3_FailedCommitKeepsState ==
  [][\A i \in 1..MaxSubmits :
       (UpdateSettles(i) /\ updResp[i].error # Null) =>
         /\ isEditing' = isEditing
         /\ form' = form
         /\ committed' = committed
         /\ species' = species
         /\ row' = row
         /\ refreshCalls' = 0
         /\ toasts' = <<FailureToast(updResp[i].error[1])>>]_vars

\* C3 witness: a failed commit was just reported while the dialog is still
\* Editing a draft that differs from the record.
C3_Witness ==
  /\ \E m \in ErrorMessages : toasts = <<FailureToast(m)>>
  /\ isEditing
  /\ nSubmits > 0
  /\ nDeletes = 0
  /\ form # defaultValues(species)

\* C4 (as claimed): the delete control is there exactly when the record's
\* author is the session's user, in Viewing and in Editing alike.
C4_DeleteInEitherState ==
  ("Delete" \in Controls(species, currentUser, isEditing))
    <=> (species.author = currentUser)

\* C4 (amended): the delete control and the edit control are there exactly when
\* the record's author is the session's user and the dialog is Viewing; a
\* non-author gets no control; a delete is only ever requested, and Editing
\* only ever entered, by the author from Viewing.
C4_AuthorControls ==
  /\ [](LET c == Controls(species, currentUser, isEditing)
        IN /\ ("Delete" \in c) <=> (species.author = currentUser /\ ~isEditing)
           /\ ("Edit" \in c) <=> (species.author = currentUser /\ ~isEditing)
           /\ (species.author # currentUser) => (c = {}))
  /\ [][/\ DeleteIssued => (species.author = currentUser /\ ~isEditing)
        /\ (~isEditing /\ isEditing') => (species.author = currentUser)]_vars

\* C4 witness: the author is Editing, with a delete requested earlier from
\* Viewing, and sees Confirm and Cancel only.
C4_Witness ==
  /\ mounted
  /\ isEditing
  /\ species.author = currentUser
  /\ nDeletes > 0
  /\ Controls(species, currentUser, isEditing) = {"Confirm", "Cancel"}

\* C5 (as claimed): at most one update request of the dialog is in flight at
\* any time.
C5_OneUpdateInFlight == InFlightUpdates <= 1

\* C9 (as claimed): on every Viewing -> Editing transition the draft equals the
\* record as currently passed to the dialog.
C9_StartEditSeedsDraft ==
  [][(~isEditing /\ isEditing') => form' = defaultValues(species')]_vars

\* C10 (as claimed): when the author-info fetch for the record's current author
\* fails, Author Info is null once it settled, and the edit state and the draft
\* are untouched.
C10_FailedFetchLeavesUnset ==
  [][\A i \in 1..(MaxExternal + 1) :
       (FetchSettles(i) /\ logged' # <<>> /\ fetchReq[i] = species.author) =>
         /\ authorInfo' = Null
         /\ UNCHANGED editState]_vars

\* C11 (as claimed): once no author-info fetch is outstanding, any Author Info
\* the dialog shows is the profile of the record's current author, whatever
\* the order in which the responses arrived.  Stated on the step that settles
\* the last outstanding fetch with a successful response, so that the case is
\* the arrival order alone and not a failed fetch (C10).
C11_SettledInfoIsCurrentAuthor ==
  [][(/\ mounted
      /\ Len(fetchReq) = 1
      /\ FetchSettles(1)
      /\ logged' = <<>>)
       => authorInfo' = Some(Profile(species'.author))]_vars

\* ------------------------------------------------------- schema properties
\* An empty or whitespace-only string input
IsBlankInput(val) == val # Null /\ Trim(val[1]) = <<>>

\* C6 (as claimed): for each optional string field, an empty or whitespace-only
\* input validates and yields null; any other accepted input yields its
\* trimmed value.
C6_BlankOptionalIsNull ==
  schemaDone =>
    IF IsBlankInput(schemaIn)
    THEN schemaOut = Ok(Null)
    ELSE (schemaOut.ok /\ schemaIn # Null) =>
           schemaOut.value = Some(Trim(schemaIn[1]))

\* --------------------------------------------------------- list properties
\* out holds exactly the records of input, ordered by the case-insensitive
\* comparison of scientific_name in the given direction, records of equal key
\* in their input order (ids number the input's positions).
IsOrderedView(out, input, order) ==
  /\ Len(out) = Len(input)
  /\ \A i \in 1..Len(input) : \E j \in 1..Len(out) : out[j] = input[i]
  /\ \A j \in 1..(Len(out) - 1) :
       LET c == localeCompare(toLowerCase(out[j].scientific_name),
                              toLowerCase(out[j + 1].scientific_name))
       IN IF c = 0 THEN out[j].id < out[j + 1].id
          ELSE IF order = "asc" THEN c < 0 ELSE c > 0

\* C7: after any two toggles in a row, the rendered collection is exactly the
\* sequence that was rendered before those two toggles.
C7_ToggleTwiceRestores ==
  Len(shownBefore) >= 2 => speciesList = shownBefore[Len(shownBefore) - 1]

\* C7 witness: two toggles happened on a collection holding names that are
\* equal ignoring case, and the last toggle changed the rendered order.
C7_Witness ==
  /\ Len(shownBefore) >= 2
  /\ speciesList # shownBefore[Len(shownBefore)]
  /\ \E i, j \in 1..Len(given) :
       /\ given[i].scientific_name # given[j].scientific_name
       /\ toLowerCase(given[i].scientific_name)
            = toLowerCase(given[j].scientific_name)

\* C8 (as claimed): every toggle flips the sort state between ascending and
\* descending, and then the rendered collection is the input collection in
\* the new direction, in both variants.
C8_ToggleFlipsAndSorts ==
  [][nToggles' = nToggles + 1 =>
       /\ sortOrder \in {"asc", "desc"}
       /\ sortOrder' \in {"asc", "desc"} \ {sortOrder}
       /\ IsOrderedView(speciesList', given, sortOrder')]_vars

====
